---- MODULE Spec2Model ----
(***************************************************************************)
(* Model of the S3 manager backend (src/src/main.ts): one HTTP request is  *)
(* received and handled by the route handler of its path.  The storage     *)
(* backend is external: every call the handler issues is appended to       *)
(* `calls` and is later settled, successfully or with an error message.    *)
(* A text built by a template literal is a sequence of its fragments, so   *)
(* that "the message names X" is "X is one of its fragments".              *)
(***************************************************************************)
EXTENDS Integers, Sequences, FiniteSets, TLC

VARIABLES
    pc,        \* position of the request handler
    req,       \* the request being handled
    s3Client,  \* the client createS3Client built for the request
    calls,     \* backend calls issued so far, in order, each with its state
    response,  \* ctx.response: status and body
    tasks,     \* /upload: the per-file async tasks of filesToUpload.map
    joined,    \* /upload: the promise returned by Promise.all(uploadPromises)
    disk,      \* temporary files on disk that hold file parts handed to the handler
    reads,     \* /upload: number of Deno.readFile calls issued per file
    bIdx       \* /delete: index in bucketsToDelete of the call in flight

vars == <<pc, req, s3Client, calls, response, tasks, joined, disk, reads, bIdx>>

-----------------------------------------------------------------------------
\* Bounds of the model.

\* Longest items list of a /delete request.
MaxItems == 3

\* Largest number of file parts of an /upload request.
MaxFiles == 2

-----------------------------------------------------------------------------
\* JavaScript values.

\* The value of an absent field.
Undefined == "<undefined>"

\* !v for a string-or-undefined v.
Falsy(v) == v \in {Undefined, ""}

\* The limit given to the multipart reader: 100 * 1024 * 1024 bytes.
maxFileSize == 100 * 1024 * 1024

-----------------------------------------------------------------------------
\* Messages.

MissingConfigMsg ==
    <<"Missing AWS configuration. Region, Access Key, and Secret Key are required.">>

MissingBucketMsg == <<"Bucket name is required for deleting objects.">>

\* Thrown by JSON.parse on a text that is not JSON (the absent field is
\* converted to the text "undefined", which is not JSON either).
JsonSyntaxMsg == <<"Unexpected token in JSON">>

\* Thrown by the multipart reader when a file part is longer than maxFileSize;
\* the handler forwards the text as it is.
FileTooLargeMsg == <<"File size exceeds limit of ", ToString(maxFileSize), " bytes.">>

\* Rejection of Deno.readFile(filename).
ReadFileMsg(filename) == <<"No such file or directory (os error 2): readfile '", filename, "'">>

\* error.message values of a failing backend call.
BackendErrors == {"", "AccessDenied"}

\* A text names s when s is one of the fragments it was built from.
Mentions(msg, s) == \E k \in 1..Len(msg) : msg[k] = s

-----------------------------------------------------------------------------
\* Request values.

ValidConfig ==
    [kind |-> "object", region |-> "eu-west-1", accessKeyId |-> "AK",
     secretAccessKey |-> "SK", endpoint |-> Undefined]

NoConfig == [ValidConfig EXCEPT !.kind = "undefined"]

NullConfig == [ValidConfig EXCEPT !.kind = "null"]

Configs ==
    {NoConfig, ValidConfig, [ValidConfig EXCEPT !.endpoint = "http://minio:9000"]}
    \cup {[ValidConfig EXCEPT !.region = v] : v \in {Undefined, ""}}
    \cup {[ValidConfig EXCEPT !.accessKeyId = v] : v \in {Undefined, ""}}
    \cup {[ValidConfig EXCEPT !.secretAccessKey = v] : v \in {Undefined, ""}}

ObjectItems == {[isBucket |-> FALSE, Key |-> k, Name |-> Undefined] : k \in {"k1", "k2"}}

BucketItems == {[isBucket |-> TRUE, Key |-> Undefined, Name |-> n] : n \in {"b1", "b2"}}

SeqsUpTo(S, n) == UNION {[1..m -> S] : m \in 0..n}

NoRequest == [route |-> "none"]

-----------------------------------------------------------------------------
\* createS3Client

NoClient ==
    [region |-> Undefined,
     credentials |-> [accessKeyId |-> Undefined, secretAccessKey |-> Undefined],
     endpoint |-> Undefined, forcePathStyle |-> FALSE]

\* The check of createS3Client without its test of the secret key.
ConfigMissing_NoSecretCheck(config) ==
    \/ config.kind # "object"
    \/ Falsy(config.region)
    \/ Falsy(config.accessKeyId)

ConfigMissing(config) ==
    \/ config.kind # "object"
    \/ Falsy(config.region)
    \/ Falsy(config.accessKeyId)
    \/ Falsy(config.secretAccessKey)

createS3Client(config) ==
    IF ConfigMissing(config)
    THEN [ok |-> FALSE, error |-> MissingConfigMsg, client |-> NoClient]
    ELSE [ok |-> TRUE, error |-> <<>>,
          client |-> [region |-> config.region,
                      credentials |-> [accessKeyId |-> config.accessKeyId,
                                       secretAccessKey |-> config.secretAccessKey],
                      endpoint |-> IF Falsy(config.endpoint) THEN Undefined
                                   ELSE config.endpoint,
                      forcePathStyle |-> ~Falsy(config.endpoint)]]

-----------------------------------------------------------------------------
\* Shared pieces of the handlers.

NoResponse == [status |-> 0, body |-> [none |-> TRUE]]

\* ctx.response.body = body with the status left at its default.
Ok(body) == [status |-> 200, body |-> body]

Call(cmd, input) == [cmd |-> cmd, input |-> input, st |-> "pending", err |-> <<>>]

\* Call k of cs has completed.
Completed(cs, k) == [cs EXCEPT ![k].st = "ok"]

\* Call k of cs has failed with error.message e.
Failed(cs, k, e) == [cs EXCEPT ![k].st = "failed", ![k].err = <<e>>]

\* The catch block of a handler: status and { error: error.message }.
CatchError(status, msg) ==
    /\ response' = [status |-> status, body |-> [error |-> msg]]
    /\ pc' = "responded"

Init ==
    /\ pc = "idle"
    /\ req = NoRequest
    /\ s3Client = NoClient
    /\ calls = <<>>
    /\ response = NoResponse
    /\ tasks = <<>>
    /\ joined = [st |-> "none", err |-> <<>>]
    /\ disk = {}
    /\ reads = <<>>
    /\ bIdx = 0

-----------------------------------------------------------------------------
\* The request arrives; the router runs the handler of its route.

JsonRequests ==
    {[route |-> r, config |-> c] : r \in {"/connect", "/buckets"}, c \in Configs}
    \cup {[route |-> "/objects", config |-> c, bucket |-> "b1", prefix |-> p] :
            c \in Configs, p \in {"", "a/"}}
    \cup {[route |-> "/buckets/create", config |-> c, bucketName |-> "demo", region |-> g] :
            c \in Configs, g \in {"us-east-1", "eu-west-1", Undefined}}
    \cup {[route |-> "/folders/create", config |-> c, bucket |-> "b1", key |-> "dir/"] :
            c \in Configs}


DeleteRequests ==
    {[route |-> "/delete", config |-> c, bucket |-> b, items |-> it] :
        c \in {NoConfig, ValidConfig, [ValidConfig EXCEPT !.region = ""]},
        b \in {Undefined, "", "b1"},
        it \in SeqsUpTo(ObjectItems \cup BucketItems, MaxItems)}

\* A file part as the multipart reader hands it over: held in memory
\* (file.content) or spooled to a temporary file (file.filename).
File(i, rep, size) ==
    [originalName |-> "f" \o ToString(i), contentType |-> "text/plain",
     rep |-> rep, size |-> size,
     filename |-> IF rep = "disk" THEN "/tmp/" \o ToString(i) ELSE Undefined]

\* Lengths of a file part: empty, exactly at the limit, one byte over it.
FileSizes == {0, maxFileSize, maxFileSize + 1}

FileLists ==
    UNION {{[i \in 1..n |-> File(i, shape[i][1], shape[i][2])] :
              shape \in [1..n -> {"memory", "disk"} \X FileSizes]} : n \in 0..MaxFiles}

\* The config field of the multipart body: absent, or a text that is or is
\* not the JSON of a config value.
ConfigFields ==
    {[kind |-> "absent", valid |-> FALSE, value |-> NoConfig],
     [kind |-> "text", valid |-> FALSE, value |-> NoConfig]}
    \cup {[kind |-> "text", valid |-> TRUE, value |-> c] :
            c \in {NullConfig, ValidConfig, [ValidConfig EXCEPT !.secretAccessKey = Undefined]}}

UploadRequests ==
    {[route |-> "/upload", configField |-> f, bucket |-> "b1", path |-> "p/", files |-> fs] :
        f \in ConfigFields, fs \in FileLists}

Requests == JsonRequests \cup DeleteRequests \cup UploadRequests

Receive(r) ==
    /\ pc = "idle"
    /\ req' = r
    /\ pc' = "handler"
    /\ UNCHANGED <<s3Client, calls, response, tasks, joined, disk, reads, bIdx>>

\* The handler is at the await of its only s3Client.send.
AwaitingSend(route) == pc = "await_send" /\ req.route = route

\* s3Client.send(command) is issued and awaited.
Send(client, cmd, input) ==
    /\ s3Client' = client
    /\ calls' = Append(calls, Call(cmd, input))
    /\ pc' = "await_send"
    /\ UNCHANGED response

\* A value of the backend's answer that may be absent, and `value || []`.
Optional(S) == {[defined |-> FALSE, value |-> <<>>]} \cup {[defined |-> TRUE, value |-> v] : v \in S}

OrEmpty(x) == IF x.defined THEN x.value ELSE <<>>

-----------------------------------------------------------------------------
\* router.post("/connect")

ConnectHandler ==
    /\ pc = "handler" /\ req.route = "/connect"
    /\ LET c == createS3Client(req.config) IN
         IF ~c.ok
         THEN /\ response' = [status |-> 400, body |-> [success |-> FALSE, error |-> c.error]]
              /\ pc' = "responded"
              /\ UNCHANGED <<s3Client, calls>>
         ELSE Send(c.client, "ListBuckets", [none |-> TRUE])
    /\ UNCHANGED <<req, tasks, joined, disk, reads, bIdx>>

ConnectSettle ==
    /\ AwaitingSend("/connect")
    /\ \/ /\ calls' = Completed(calls, Len(calls))
          /\ response' = Ok([success |-> TRUE, message |-> <<"Connection successful">>])
       \/ \E e \in BackendErrors :
            /\ calls' = Failed(calls, Len(calls), e)
            /\ response' = [status |-> 400, body |-> [success |-> FALSE, error |-> <<e>>]]
    /\ pc' = "responded"
    /\ UNCHANGED <<req, s3Client, tasks, joined, disk, reads, bIdx>>

-----------------------------------------------------------------------------
\* router.post("/buckets")

BucketsHandler ==
    /\ pc = "handler" /\ req.route = "/buckets"
    /\ LET c == createS3Client(req.config) IN
         IF ~c.ok
         THEN CatchError(500, c.error) /\ UNCHANGED <<s3Client, calls>>
         ELSE Send(c.client, "ListBuckets", [none |-> TRUE])
    /\ UNCHANGED <<req, tasks, joined, disk, reads, bIdx>>

BucketsSettle ==
    /\ AwaitingSend("/buckets")
    /\ \/ \E data \in Optional({<<"b1">>}) :
            /\ calls' = Completed(calls, Len(calls))
            /\ response' = Ok([buckets |-> OrEmpty(data)])
            /\ pc' = "responded"
       \/ \E e \in BackendErrors :
            /\ calls' = Failed(calls, Len(calls), e)
            /\ CatchError(500, <<e>>)
    /\ UNCHANGED <<req, s3Client, tasks, joined, disk, reads, bIdx>>

-----------------------------------------------------------------------------
\* router.post("/objects")

ObjectsHandler ==
    /\ pc = "handler" /\ req.route = "/objects"
    /\ LET c == createS3Client(req.config) IN
         IF ~c.ok
         THEN CatchError(500, c.error) /\ UNCHANGED <<s3Client, calls>>
         ELSE Send(c.client, "ListObjectsV2",
                   [Bucket |-> req.bucket, Prefix |-> req.prefix, Delimiter |-> "/"])
    /\ UNCHANGED <<req, tasks, joined, disk, reads, bIdx>>

ObjectsSettle ==
    /\ AwaitingSend("/objects")
    /\ \/ \E contents \in Optional({<<"a/x">>}), prefixes \in Optional({<<"a/d/">>}) :
            /\ calls' = Completed(calls, Len(calls))
            /\ response' = Ok([contents |-> OrEmpty(contents),
                               commonPrefixes |-> OrEmpty(prefixes)])
            /\ pc' = "responded"
       \/ \E e \in BackendErrors :
            /\ calls' = Failed(calls, Len(calls), e)
            /\ CatchError(500, <<e>>)
    /\ UNCHANGED <<req, s3Client, tasks, joined, disk, reads, bIdx>>

-----------------------------------------------------------------------------
\* router.post("/buckets/create")

\* The location constraint sent for every region.
CreateBucketConfiguration_Always(region) ==
    [defined |-> TRUE, LocationConstraint |-> region]

\* The value of CreateBucketConfiguration: absent for us-east-1, else the region.
CreateBucketConfiguration(region) ==
    IF region # "us-east-1"
    THEN [defined |-> TRUE, LocationConstraint |-> region]
    ELSE [defined |-> FALSE, LocationConstraint |-> Undefined]

BucketsCreateHandler ==
    /\ pc = "handler" /\ req.route = "/buckets/create"
    /\ LET c == createS3Client(req.config) IN
         IF ~c.ok
         THEN CatchError(500, c.error) /\ UNCHANGED <<s3Client, calls>>
         ELSE Send(c.client, "CreateBucket",
                   [Bucket |-> req.bucketName,
                    CreateBucketConfiguration |-> CreateBucketConfiguration(req.region)])
    /\ UNCHANGED <<req, tasks, joined, disk, reads, bIdx>>

BucketCreatedMsg(bucketName) == <<"Bucket ", bucketName, " created.">>

BucketsCreateSettle ==
    /\ AwaitingSend("/buckets/create")
    /\ \/ /\ calls' = Completed(calls, Len(calls))
          /\ response' = Ok([success |-> TRUE, message |-> BucketCreatedMsg(req.bucketName)])
          /\ pc' = "responded"
       \/ \E e \in BackendErrors :
            /\ calls' = Failed(calls, Len(calls), e)
            /\ CatchError(500, <<e>>)
    /\ UNCHANGED <<req, s3Client, tasks, joined, disk, reads, bIdx>>

-----------------------------------------------------------------------------
\* router.post("/folders/create")

FoldersCreateHandler ==
    /\ pc = "handler" /\ req.route = "/folders/create"
    /\ LET c == createS3Client(req.config) IN
         IF ~c.ok
         THEN CatchError(500, c.error) /\ UNCHANGED <<s3Client, calls>>
         ELSE Send(c.client, "PutObject",
                   [Bucket |-> req.bucket, Key |-> req.key, Body |-> ""])
    /\ UNCHANGED <<req, tasks, joined, disk, reads, bIdx>>

FoldersCreateSettle ==
    /\ AwaitingSend("/folders/create")
    /\ \/ /\ calls' = Completed(calls, Len(calls))
          /\ response' = Ok([success |-> TRUE, message |-> <<"Folder ", req.key, " created.">>])
          /\ pc' = "responded"
       \/ \E e \in BackendErrors :
            /\ calls' = Failed(calls, Len(calls), e)
            /\ CatchError(500, <<e>>)
    /\ UNCHANGED <<req, s3Client, tasks, joined, disk, reads, bIdx>>

-----------------------------------------------------------------------------
\* router.post("/delete")

\* A test for the absent bucket only, which lets the empty name through.
BucketMissing_OnlyUndefined(bucket) == bucket = Undefined

\* !bucket
BucketMissing(bucket) == Falsy(bucket)

IsObjectItem(item) == ~item.isBucket

IsBucketItem(item) == item.isBucket

objectsToDelete(items) == SelectSeq(items, IsObjectItem)

Reverse(q) == [k \in 1..Len(q) |-> q[Len(q) + 1 - k]]

\* The bucket items taken in the opposite order.
bucketsToDelete_Reversed(items) == Reverse(SelectSeq(items, IsBucketItem))

bucketsToDelete(items) == SelectSeq(items, IsBucketItem)

\* Delete: { Objects: objectsToDelete.map(item => ({ Key: item.Key })) }
DeleteParams(bucket, objects) ==
    [Bucket |-> bucket,
     Delete |-> [Objects |-> [k \in 1..Len(objects) |-> [Key |-> objects[k].Key]]]]

\* The for loop over bucketsToDelete, entered at index k with the calls issued
\* so far: the next delete-bucket call is sent and awaited, or the loop is
\* over and the success body is set.
DeleteBucketsFrom(k, issued) ==
    LET buckets == bucketsToDelete(req.items) IN
    IF k <= Len(buckets)
    THEN /\ calls' = Append(issued, Call("DeleteBucket", [Bucket |-> buckets[k].Name]))
         /\ bIdx' = k
         /\ pc' = "await_delete_bucket"
         /\ UNCHANGED response
    ELSE /\ calls' = issued
         /\ bIdx' = bIdx
         /\ response' = Ok([success |-> TRUE, message |-> <<"Items deleted successfully.">>])
         /\ pc' = "responded"

DeleteHandler ==
    /\ pc = "handler" /\ req.route = "/delete"
    /\ LET c == createS3Client(req.config)
           objects == objectsToDelete(req.items)
       IN
         IF ~c.ok
         THEN CatchError(500, c.error) /\ UNCHANGED <<s3Client, calls, bIdx>>
         ELSE /\ s3Client' = c.client
              /\ IF Len(objects) > 0
                 THEN IF BucketMissing(req.bucket)
                      THEN CatchError(500, MissingBucketMsg) /\ UNCHANGED <<calls, bIdx>>
                      ELSE /\ calls' = Append(calls, Call("DeleteObjects",
                                                          DeleteParams(req.bucket, objects)))
                           /\ pc' = "await_delete_objects"
                           /\ UNCHANGED <<response, bIdx>>
                 ELSE DeleteBucketsFrom(1, calls)
    /\ UNCHANGED <<req, tasks, joined, disk, reads>>

DeleteObjectsSettle ==
    /\ pc = "await_delete_objects"
    /\ \/ DeleteBucketsFrom(1, Completed(calls, Len(calls)))
       \/ \E e \in BackendErrors :
            /\ calls' = Failed(calls, Len(calls), e)
            /\ CatchError(500, <<e>>)
            /\ UNCHANGED bIdx
    /\ UNCHANGED <<req, s3Client, tasks, joined, disk, reads>>

\* A loop that goes on to the next bucket when a delete-bucket call fails.
DeleteBucketSettle_ContinueOnError ==
    /\ pc = "await_delete_bucket"
    /\ \/ DeleteBucketsFrom(bIdx + 1, Completed(calls, Len(calls)))
       \/ \E e \in BackendErrors : DeleteBucketsFrom(bIdx + 1, Failed(calls, Len(calls), e))
    /\ UNCHANGED <<req, s3Client, tasks, joined, disk, reads>>

DeleteBucketSettle ==
    /\ pc = "await_delete_bucket"
    /\ \/ DeleteBucketsFrom(bIdx + 1, Completed(calls, Len(calls)))
       \/ \E e \in BackendErrors :
            /\ calls' = Failed(calls, Len(calls), e)
            /\ CatchError(500, <<e>>)
            /\ UNCHANGED bIdx
    /\ UNCHANGED <<req, s3Client, tasks, joined, disk, reads>>

-----------------------------------------------------------------------------
\* router.post("/upload")

\* JSON.parse(formData.fields.config)
JSONParse(field) ==
    IF field.kind = "absent" \/ ~field.valid
    THEN [ok |-> FALSE, error |-> JsonSyntaxMsg, value |-> NoConfig]
    ELSE [ok |-> TRUE, error |-> <<>>, value |-> field.value]

\* The limit taken one byte too high.
TooLarge_OffByOne(file) == file.size > maxFileSize + 1

\* byteLength > maxFileSize in the multipart reader.
TooLarge(file) == file.size > maxFileSize

\* formDataReader.read({maxFileSize}): a part longer than the limit makes the
\* read throw, and the handler gets no form data; else the handler gets the
\* fields and the files, the spooled ones as temporary files on disk.
UploadRead ==
    /\ pc = "handler" /\ req.route = "/upload"
    /\ LET files == req.files IN
         IF \E i \in 1..Len(files) : TooLarge(files[i])
         THEN CatchError(500, FileTooLargeMsg) /\ UNCHANGED disk
         ELSE /\ disk' = disk \cup {files[i].filename :
                                      i \in {j \in 1..Len(files) : files[j].rep = "disk"}}
              /\ pc' = "parsed"
              /\ UNCHANGED response
    /\ UNCHANGED <<req, s3Client, calls, tasks, joined, reads, bIdx>>

NewTask == [st |-> "new", call |-> 0, err |-> <<>>, cause |-> ""]

UploadParams(file) ==
    [Bucket |-> req.bucket, Key |-> req.path \o file.originalName, Body |-> file.size,
     ContentType |-> file.contentType, ChecksumMode |-> "DISABLED"]

\* The test of the data without its length.
EmptyData_NoLengthCheck(file) == FALSE

\* !fileData || fileData.length === 0, for file data of the file's length.
EmptyData(file) == file.size = 0

\* Lines 177-204 for file i once its data is at hand, given the tasks and
\* calls so far: the file is skipped, or its Upload is built and done() awaited.
WithData(i, file, st) ==
    IF EmptyData(file)
    THEN [st EXCEPT !.tasks[i].st = "skipped"]
    ELSE [st EXCEPT !.tasks[i].st = "uploading",
                    !.tasks[i].call = Len(st.calls) + 1,
                    !.calls = Append(st.calls, Call("Upload", UploadParams(file)))]

\* The async callback of filesToUpload.map for file i, up to its first await.
StartTask(i, file, st) ==
    IF file.rep = "memory"
    THEN WithData(i, file, st)
    ELSE [st EXCEPT !.tasks[i].st = "reading", !.reads[i] = st.reads[i] + 1]

RECURSIVE RunMap(_, _, _)
RunMap(files, i, st) ==
    IF i > Len(files) THEN st
    ELSE RunMap(files, i + 1, StartTask(i, files[i], st))

Resolved(task) == task.st \in {"skipped", "uploaded"}

Rejected(task) == task.st \in {"readFailed", "uploadFailed"}

Settled(task) == Resolved(task) \/ Rejected(task)

\* A join that is fulfilled as soon as the settling task has resolved.
PromiseAll_FirstResolved(p, ts, i) ==
    IF p.st # "pending" THEN p
    ELSE IF i \in DOMAIN ts /\ Rejected(ts[i]) THEN [st |-> "rejected", err |-> ts[i].err]
    ELSE IF (i \in DOMAIN ts /\ Resolved(ts[i])) \/ \A j \in DOMAIN ts : Resolved(ts[j])
         THEN [st |-> "fulfilled", err |-> <<>>]
    ELSE p

\* Promise.all(uploadPromises) after task i has settled in ts: rejected with
\* the first rejection, fulfilled when every task has resolved.
PromiseAll(p, ts, i) ==
    IF p.st # "pending" THEN p
    ELSE IF i \in DOMAIN ts /\ Rejected(ts[i]) THEN [st |-> "rejected", err |-> ts[i].err]
    ELSE IF \A j \in DOMAIN ts : Resolved(ts[j]) THEN [st |-> "fulfilled", err |-> <<>>]
    ELSE p

\* Lines 153-214: the fields are read, the client is built, the callback of
\* every file runs to its first await, and the handler awaits Promise.all.
UploadStart ==
    /\ pc = "parsed"
    /\ LET parsed == JSONParse(req.configField)
           c == createS3Client(parsed.value)
           n == Len(req.files)
           st == RunMap(req.files, 1,
                        [tasks |-> [i \in 1..n |-> NewTask], calls |-> calls,
                         reads |-> [i \in 1..n |-> 0]])
       IN
         IF ~parsed.ok
         THEN CatchError(500, parsed.error) /\ UNCHANGED <<s3Client, calls, tasks, joined, reads>>
         ELSE IF ~c.ok
         THEN CatchError(500, c.error) /\ UNCHANGED <<s3Client, calls, tasks, joined, reads>>
         ELSE /\ s3Client' = c.client
              /\ tasks' = st.tasks
              /\ calls' = st.calls
              /\ reads' = st.reads
              /\ joined' = PromiseAll([st |-> "pending", err |-> <<>>], st.tasks, 0)
              /\ pc' = "await_all"
              /\ UNCHANGED response
    /\ UNCHANGED <<req, disk, bIdx>>

\* await Deno.readFile(file.filename) of file i settles; on success the
\* callback goes on with the data.
ReadFileSettle(i) ==
    /\ i \in DOMAIN tasks
    /\ tasks[i].st = "reading"
    /\ \/ LET st == WithData(i, req.files[i], [tasks |-> tasks, calls |-> calls, reads |-> reads])
          IN /\ tasks' = st.tasks
             /\ calls' = st.calls
       \/ /\ tasks' = [tasks EXCEPT ![i].st = "readFailed",
                                    ![i].err = ReadFileMsg(req.files[i].filename)]
          /\ UNCHANGED calls
    /\ joined' = PromiseAll(joined, tasks', i)
    /\ UNCHANGED <<pc, req, s3Client, response, disk, reads, bIdx>>

\* `Failed to upload ${file.originalName}: ${uploadError.message || 'Unknown S3 error'}`
FailedToUploadMsg(file, e) ==
    <<"Failed to upload ", file.originalName, ": ", IF Falsy(e) THEN "Unknown S3 error" ELSE e>>

\* await parallelUploads3.done() of file i settles.
UploadSettle(i) ==
    /\ i \in DOMAIN tasks
    /\ tasks[i].st = "uploading"
    /\ \/ /\ tasks' = [tasks EXCEPT ![i].st = "uploaded"]
          /\ calls' = Completed(calls, tasks[i].call)
       \/ \E e \in BackendErrors :
            /\ tasks' = [tasks EXCEPT ![i].st = "uploadFailed", ![i].cause = e,
                                      ![i].err = FailedToUploadMsg(req.files[i], e)]
            /\ calls' = Failed(calls, tasks[i].call, e)
    /\ joined' = PromiseAll(joined, tasks', i)
    /\ UNCHANGED <<pc, req, s3Client, response, disk, reads, bIdx>>

\* await Promise.all(uploadPromises) returns or throws: lines 214-223.
UploadRespond ==
    /\ pc = "await_all"
    /\ joined.st # "pending"
    /\ IF joined.st = "fulfilled"
       THEN /\ response' = Ok([success |-> TRUE, message |-> <<"All files processed.">>])
            /\ pc' = "responded"
       ELSE CatchError(500, joined.err)
    /\ UNCHANGED <<req, s3Client, calls, tasks, joined, disk, reads, bIdx>>

-----------------------------------------------------------------------------

Next ==
    \/ \E r \in Requests : Receive(r)
    \/ ConnectHandler
    \/ ConnectSettle
    \/ BucketsHandler
    \/ BucketsSettle
    \/ ObjectsHandler
    \/ ObjectsSettle
    \/ BucketsCreateHandler
    \/ BucketsCreateSettle
    \/ FoldersCreateHandler
    \/ FoldersCreateSettle
    \/ DeleteHandler
    \/ DeleteObjectsSettle
    \/ DeleteBucketSettle
    \/ UploadRead
    \/ UploadStart
    \/ \E i \in 1..MaxFiles : ReadFileSettle(i)
    \/ \E i \in 1..MaxFiles : UploadSettle(i)
    \/ UploadRespond

Spec == Init /\ [][Next]_vars

-----------------------------------------------------------------------------
\* What the properties speak about.

Responded == pc = "responded"

\* A value that is absent or the empty string.
AbsentOrEmpty(v) == v = Undefined \/ v = ""

\* A config that is an object with a region, an access key id and a secret key.
ValidConfigValue(c) ==
    /\ c.kind = "object"
    /\ ~AbsentOrEmpty(c.region)
    /\ ~AbsentOrEmpty(c.accessKeyId)
    /\ ~AbsentOrEmpty(c.secretAccessKey)

IsDelete == req.route = "/delete"

IsUpload == req.route = "/upload"

\* The keys of the object items and the names of the bucket items of an
\* items list, each in the order of the list.
RECURSIVE ObjectKeys(_)
ObjectKeys(items) ==
    IF items = <<>> THEN <<>>
    ELSE (IF Head(items).isBucket THEN <<>> ELSE <<Head(items).Key>>) \o ObjectKeys(Tail(items))

RECURSIVE BucketNames(_)
BucketNames(items) ==
    IF items = <<>> THEN <<>>
    ELSE (IF Head(items).isBucket THEN <<Head(items).Name>> ELSE <<>>) \o BucketNames(Tail(items))

NoCallFailed == \A k \in 1..Len(calls) : calls[k].st # "failed"

\* Call k is the batched delete of exactly the object keys of the request.
IsBatchedDelete(k) ==
    /\ calls[k].cmd = "DeleteObjects"
    /\ calls[k].input.Bucket = req.bucket
    /\ LET sent == calls[k].input.Delete.Objects
           keys == ObjectKeys(req.items)
       IN /\ Len(sent) = Len(keys)
          /\ \A j \in 1..Len(keys) : sent[j].Key = keys[j]

\* Call k is the delete of the bucket named n.
IsBucketDelete(k, n) ==
    /\ calls[k].cmd = "DeleteBucket"
    /\ calls[k].input.Bucket = n

\* A /delete request with a valid config, a bucket name, and items of both kinds.
MixedDelete ==
    /\ IsDelete
    /\ ValidConfigValue(req.config)
    /\ ~AbsentOrEmpty(req.bucket)
    /\ ObjectKeys(req.items) # <<>>
    /\ BucketNames(req.items) # <<>>

\* C1: a /delete request with a valid config, a bucket name and items of both
\* kinds issues, as long as no backend call fails, the batched delete-objects
\* call first and then one delete-bucket call per bucket item in input order,
\* each only when every call before it has completed, and nothing else; when
\* it has responded without a failure all of these calls were issued.
C1_DeleteSequence ==
    (MixedDelete /\ NoCallFailed) =>
        LET names == BucketNames(req.items) IN
        /\ Len(calls) <= 1 + Len(names)
        /\ \A k \in 1..Len(calls) :
             /\ IF k = 1 THEN IsBatchedDelete(1) ELSE IsBucketDelete(k, names[k - 1])
             /\ k < Len(calls) => calls[k].st = "ok"
        /\ Responded =>
             /\ Len(calls) = 1 + Len(names)
             /\ calls[Len(calls)].st = "ok"
             /\ response.status = 200

C1_Witness ==
    /\ MixedDelete /\ NoCallFailed /\ Responded
    /\ Len(BucketNames(req.items)) = 2
    /\ BucketNames(req.items)[1] # BucketNames(req.items)[2]
    /\ Len(calls) = 3

\* A /delete request with at least one item, all of them object items, and
\* no bucket name.
ObjectsOnlyNoBucket ==
    /\ IsDelete
    /\ req.items # <<>>
    /\ BucketNames(req.items) = <<>>
    /\ AbsentOrEmpty(req.bucket)

\* C2 as stated: a /delete request with only object items and no bucket name
\* is answered 500 with the bucket-name-required message and issues no
\* backend call.
C2_AsStated ==
    ObjectsOnlyNoBucket =>
        /\ calls = <<>>
        /\ Responded => response = [status |-> 500, body |-> [error |-> MissingBucketMsg]]

\* C2 amended: such a request issues no backend call and is answered 500;
\* the message is the bucket-name-required message when the config is valid
\* and the missing-configuration message when it is not.
C2_ObjectsOnlyNoBucket ==
    ObjectsOnlyNoBucket =>
        /\ calls = <<>>
        /\ Responded =>
             response = [status |-> 500,
                         body |-> [error |-> IF ~ValidConfigValue(req.config)
                                             THEN MissingConfigMsg ELSE MissingBucketMsg]]

C2_Witness ==
    /\ ObjectsOnlyNoBucket /\ Responded
    /\ ValidConfigValue(req.config)
    /\ req.bucket = ""
    /\ response.body.error = MissingBucketMsg

\* C6: when a backend call of a /delete request has failed, the request is
\* answered 500 with that call's error message, the failed call is the last
\* call issued, every call before it has completed and stays completed, and
\* only delete calls were ever issued (nothing undoes a deletion).
C6_DeleteFailure ==
    IsDelete =>
        \A k \in 1..Len(calls) :
            /\ calls[k].cmd \in {"DeleteObjects", "DeleteBucket"}
            /\ calls[k].st = "failed" =>
                 /\ k = Len(calls)
                 /\ \A j \in 1..(k - 1) : calls[j].st = "ok"
                 /\ Responded
                 /\ response = [status |-> 500, body |-> [error |-> calls[k].err]]

C6_Witness ==
    /\ IsDelete /\ Responded
    /\ Len(req.items) = 3
    /\ Len(calls) = 2
    /\ calls[1].cmd = "DeleteObjects" /\ calls[1].st = "ok"
    /\ calls[2].cmd = "DeleteBucket" /\ calls[2].st = "failed"
    /\ Len(BucketNames(req.items)) = 2
    /\ response.status = 500

\* C8: a /buckets/create request with a valid config sends one create-bucket
\* call that carries no location constraint for region "us-east-1" and the
\* request's region as location constraint otherwise; when the call has
\* completed the answer is 200 with a message naming the bucket.
C8_LocationConstraint ==
    (req.route = "/buckets/create" /\ ValidConfigValue(req.config)) =>
        /\ Len(calls) <= 1
        /\ pc # "handler" => Len(calls) = 1
        /\ \A k \in 1..Len(calls) :
             /\ calls[k].cmd = "CreateBucket"
             /\ calls[k].input.Bucket = req.bucketName
             /\ LET cbc == calls[k].input.CreateBucketConfiguration IN
                  IF req.region = "us-east-1" THEN ~cbc.defined
                  ELSE cbc.defined /\ cbc.LocationConstraint = req.region
             /\ calls[k].st = "ok" =>
                  /\ response.status = 200
                  /\ response.body.success
                  /\ Mentions(response.body.message, req.bucketName)

C8_Witness ==
    /\ req.route = "/buckets/create" /\ Responded
    /\ req.region = "eu-west-1"
    /\ Len(calls) = 1
    /\ calls[1].input.CreateBucketConfiguration.LocationConstraint = "eu-west-1"
    /\ response.status = 200

-----------------------------------------------------------------------------
\* Properties of /upload.

\* The callbacks of filesToUpload.map have been started.
Started == IsUpload /\ joined.st # "none"

Files == DOMAIN req.files

\* The Upload calls issued for file i: those whose key is the file's key.
UploadCallsOf(i) ==
    {k \in 1..Len(calls) :
        calls[k].cmd = "Upload" /\ calls[k].input.Key = req.path \o req.files[i].originalName}

\* The text of the response names file i as failed to upload, with the
\* message of the error its upload threw when that message is not empty.
NamesFailedUpload(i) ==
    /\ tasks[i].st = "uploadFailed"
    /\ Mentions(response.body.error, req.files[i].originalName)
    /\ tasks[i].cause # "" => Mentions(response.body.error, tasks[i].cause)

\* C3: the answer is 200 only when every file that is not skipped
\* has been uploaded without error, and once any file's upload has thrown the
\* answer is 500 with a message naming a file whose upload failed and the
\* underlying error message.
C3_UploadFailureNamesFile ==
    (Started /\ Responded) =>
        /\ response.status = 200 =>
             \A i \in Files : tasks[i].st \in {"skipped", "uploaded"}
        /\ (\E i \in Files : tasks[i].st = "uploadFailed") =>
             /\ response.status = 500
             /\ \E i \in Files : NamesFailedUpload(i)

\* C4: a file part of length zero is never uploaded: no Upload call is issued
\* for it and its task does not reach an upload; once its data is at hand (it
\* is held in memory, or its temporary file has been read) its task is
\* resolved as skipped; an answer of 500 after the tasks were started carries
\* the error of a task that was not skipped, and when every task has been
\* skipped or has uploaded its file the answer is 200.
C4_ZeroLengthSkipped ==
    Started =>
        /\ \A i \in Files :
             req.files[i].size = 0 =>
                 /\ UploadCallsOf(i) = {}
                 /\ tasks[i].call = 0
                 /\ tasks[i].st \in {"reading", "skipped", "readFailed"}
                 /\ req.files[i].rep = "memory" => tasks[i].st = "skipped"
        /\ (\A i \in Files : tasks[i].st \in {"skipped", "uploaded"}) =>
             /\ joined.st = "fulfilled"
             /\ Responded => response.status = 200
        /\ (Responded /\ response.status # 200) =>
             \E i \in Files : /\ tasks[i].st \in {"readFailed", "uploadFailed"}
                              /\ response.body.error = tasks[i].err

C4_Witness ==
    /\ Started /\ Responded
    /\ Len(req.files) = 2
    /\ req.files[1].size = 0 /\ req.files[1].rep = "disk" /\ tasks[1].st = "skipped"
    /\ req.files[2].size > 0 /\ tasks[2].st = "uploaded"
    /\ Len(calls) = 1
    /\ response.status = 200

\* The file parts longer than the limit.
Oversized == {i \in Files : req.files[i].size > maxFileSize}

\* C7 as stated: an /upload request with exactly one file over the limit is
\* answered 500 with a message naming that file, and no upload is started.
C7_AsStated ==
    (IsUpload /\ Cardinality(Oversized) = 1) =>
        /\ \A k \in 1..Len(calls) : calls[k].cmd # "Upload"
        /\ Responded =>
             /\ response.status = 500
             /\ \E i \in Oversized : Mentions(response.body.error, req.files[i].originalName)

\* C7 amended: an /upload request with exactly one file over the limit is
\* answered 500 with the multipart reader's size-limit message, which states
\* the limit and not the file; no client is built, no task is started and no
\* backend call is issued.
C7_OversizedRejected ==
    (IsUpload /\ Cardinality(Oversized) = 1) =>
        /\ calls = <<>>
        /\ tasks = <<>>
        /\ s3Client = NoClient
        /\ pc \in {"handler", "responded"}
        /\ Responded => response = [status |-> 500, body |-> [error |-> FileTooLargeMsg]]

C7_Witness ==
    /\ IsUpload /\ Responded
    /\ Len(req.files) = 2
    /\ Cardinality(Oversized) = 1
    /\ \E i \in Files : req.files[i].size = maxFileSize
    /\ req.configField.valid /\ ValidConfigValue(req.configField.value)
    /\ response.status = 500

\* C9 as stated: when the answer of an /upload request is produced, every
\* started task of the request has finished.
C9_AsStated ==
    (Started /\ Responded) => \A i \in Files : Settled(tasks[i])

\* C9 amended: the tasks of all files are started before the handler awaits
\* them and no answer is produced while the join is pending; the answer 200
\* is produced only when every task has finished successfully; the answer
\* 500 is produced once a task has failed, while other tasks of the request
\* may still be in flight.
C9_JoinBeforeResponse ==
    Started =>
        /\ \A i \in Files : tasks[i].st # "new"
        /\ joined.st = "pending" => (~Responded /\ response = NoResponse)
        /\ Responded =>
             /\ response.status = 200 => \A i \in Files : Resolved(tasks[i])
             /\ response.status # 200 => \E i \in Files : Rejected(tasks[i])

C9_Witness ==
    /\ Started /\ Responded
    /\ response.status = 500
    /\ \E i \in Files : tasks[i].st = "uploading" /\ calls[tasks[i].call].st = "pending"
    /\ \E i \in Files : tasks[i].st = "uploadFailed"

\* The request is over: answered, with no task of it left running.
Finished == Responded /\ \A i \in DOMAIN tasks : Settled(tasks[i])

\* C10: every file part of an /upload request is read at most once and has
\* at most one upload started for it, and when the request is over no
\* temporary file that held the data of one of its parts is left on disk.
C10_ConsumedOnceAndRemoved ==
    IsUpload =>
        /\ \A i \in DOMAIN tasks :
             /\ reads[i] <= 1
             /\ Cardinality(UploadCallsOf(i)) <= 1
        /\ Finished => \A i \in Files : req.files[i].filename \notin disk

-----------------------------------------------------------------------------
\* Properties of the config check on every route.

\* The config the request carries is missing or lacks one of the three
\* required values; on /upload the config is the value of the config field.
RequestConfigMissing ==
    IF IsUpload
    THEN \/ req.configField.kind = "absent"
         \/ req.configField.valid /\ ~ValidConfigValue(req.configField.value)
    ELSE req.route # "none" /\ ~ValidConfigValue(req.config)

ConfigErrorStatus == IF req.route = "/connect" THEN 400 ELSE 500

\* C5 as stated: on every route a request whose config is missing or
\* incomplete issues no backend call and is answered with the
\* missing-configuration message, with status 400 on /connect and 500 elsewhere.
C5_AsStated ==
    RequestConfigMissing =>
        /\ calls = <<>>
        /\ Responded =>
             /\ response.status = ConfigErrorStatus
             /\ response.body.error = MissingConfigMsg

\* C5 amended: such a request issues no backend call and is answered with
\* status 400 on /connect and 500 elsewhere; the message is the
\* missing-configuration message on the six JSON routes, and on /upload it is
\* the size-limit message when a file part is over the limit, else the JSON
\* syntax error when the config field is absent, else the
\* missing-configuration message.
C5_MissingConfig ==
    RequestConfigMissing =>
        /\ calls = <<>>
        /\ s3Client = NoClient
        /\ Responded =>
             /\ response.status = ConfigErrorStatus
             /\ response.body.error =
                  IF ~IsUpload THEN MissingConfigMsg
                  ELSE IF Oversized # {} THEN FileTooLargeMsg
                  ELSE IF req.configField.kind = "absent" THEN JsonSyntaxMsg
                  ELSE MissingConfigMsg

C5_Witness ==
    /\ IsUpload /\ Responded
    /\ req.configField.valid
    /\ req.configField.value.kind = "object"
    /\ AbsentOrEmpty(req.configField.value.secretAccessKey)
    /\ \E i \in Files : req.files[i].size = maxFileSize
    /\ response = [status |-> 500, body |-> [error |-> MissingConfigMsg]]

====
